---- MODULE Spec2Model ----
(***************************************************************************)
(* WineAI (src/wineai.py): a Streamlit script that is re-executed from top *)
(* to bottom on every user action.  One handler run reads the API key, the *)
(* sidebar filters and the submitted input, appends the user's message to  *)
(* the session's conversation log, sends the log to the completion client  *)
(* and appends the (post-processed) reply.                                 *)
(*                                                                         *)
(* A Python str is modelled as the sequence of its characters, a dict as   *)
(* an object on a heap (lists hold references to dicts), None as the empty *)
(* option <<>> and a present value v as <<v>>.                             *)
(***************************************************************************)
EXTENDS Integers, Sequences, FiniteSets, TLC

(***************************************************************************)
(* Bounds of the model.                                                    *)
(***************************************************************************)
\* number of turns (runs with a truthy input) explored in one session
MaxTurns == 2
\* number of pieces a completion text is built from in SplitSpec
MaxPieces == 4

(***************************************************************************)
(* String constants of the program.                                        *)
(***************************************************************************)
\* 'Image Search Suggestion:'
MARKER ==
    <<"I","m","a","g","e"," ","S","e","a","r","c","h"," ","S","u","g","g","e",
      "s","t","i","o","n",":">>

\* the system prompt, lines 29-41, cut after its first sentence: no operation
\* of the program looks inside it
\* '\nYou are WineAI, a highly knowledgeable, friendly, and sophisticated virtual sommelier.\n'
SYSTEM_PRE_PROMPT ==
    <<"\n","Y","o","u"," ","a","r","e"," ","W","i","n","e","A","I",","," ","a",
      " ","h","i","g","h","l","y"," ","k","n","o","w","l","e","d","g","e","a",
      "b","l","e",","," ","f","r","i","e","n","d","l","y",","," ","a","n","d",
      " ","s","o","p","h","i","s","t","i","c","a","t","e","d"," ","v","i","r",
      "t","u","a","l"," ","s","o","m","m","e","l","i","e","r",".","\n">>

\* 'Welcome to WineAI! How are you feeling today, and what kind of wine experience are you looking for?'
WELCOME ==
    <<"W","e","l","c","o","m","e"," ","t","o"," ","W","i","n","e","A","I","!",
      " ","H","o","w"," ","a","r","e"," ","y","o","u"," ","f","e","e","l","i",
      "n","g"," ","t","o","d","a","y",","," ","a","n","d"," ","w","h","a","t",
      " ","k","i","n","d"," ","o","f"," ","w","i","n","e"," ","e","x","p","e",
      "r","i","e","n","c","e"," ","a","r","e"," ","y","o","u"," ","l","o","o",
      "k","i","n","g"," ","f","o","r","?">>

\* "I'm feeling celebratory!"
PROMPT_0 ==
    <<"I","'","m"," ","f","e","e","l","i","n","g"," ","c","e","l","e","b","r",
      "a","t","o","r","y","!">>

\* 'Need a relaxing wine after a long day.'
PROMPT_1 ==
    <<"N","e","e","d"," ","a"," ","r","e","l","a","x","i","n","g"," ","w","i",
      "n","e"," ","a","f","t","e","r"," ","a"," ","l","o","n","g"," ","d","a",
      "y",".">>

\* 'Something adventurous and bold?'
PROMPT_2 ==
    <<"S","o","m","e","t","h","i","n","g"," ","a","d","v","e","n","t","u","r",
      "o","u","s"," ","a","n","d"," ","b","o","l","d","?">>

suggested_prompts == <<PROMPT_0, PROMPT_1, PROMPT_2>>

\* 'Sorry, I encountered an error connecting to the wine knowledge base. Please try again.'
APOLOGY_API ==
    <<"S","o","r","r","y",","," ","I"," ","e","n","c","o","u","n","t","e","r",
      "e","d"," ","a","n"," ","e","r","r","o","r"," ","c","o","n","n","e","c",
      "t","i","n","g"," ","t","o"," ","t","h","e"," ","w","i","n","e"," ","k",
      "n","o","w","l","e","d","g","e"," ","b","a","s","e","."," ","P","l","e",
      "a","s","e"," ","t","r","y"," ","a","g","a","i","n",".">>

\* 'Apologies, a technical glitch occurred. Please try again.'
APOLOGY_OTHER ==
    <<"A","p","o","l","o","g","i","e","s",","," ","a"," ","t","e","c","h","n",
      "i","c","a","l"," ","g","l","i","t","c","h"," ","o","c","c","u","r","r",
      "e","d","."," ","P","l","e","a","s","e"," ","t","r","y"," ","a","g","a",
      "i","n",".">>

\* 'Any'
ANY ==
    <<"A","n","y">>

\* 'Not Specified'
NOT_SPECIFIED ==
    <<"N","o","t"," ","S","p","e","c","i","f","i","e","d">>

\* 'Merlot'
MERLOT ==
    <<"M","e","r","l","o","t">>

\* 'Napa Valley (USA)'
NAPA ==
    <<"N","a","p","a"," ","V","a","l","l","e","y"," ","(","U","S","A",")">>

\* 'User Preferences: Grape=['
FC_GRAPE ==
    <<"U","s","e","r"," ","P","r","e","f","e","r","e","n","c","e","s",":"," ",
      "G","r","a","p","e","=","[">>

\* '], Region=['
FC_REGION ==
    <<"]",","," ","R","e","g","i","o","n","=","[">>

\* '], Price Range=['
FC_PRICE ==
    <<"]",","," ","P","r","i","c","e"," ","R","a","n","g","e","=","[">>

\* '].'
FC_END ==
    <<"]",".">>

\* ' - '
PRICE_SEP ==
    <<" ","-"," ">>

\* '\n\nUser Mood/Request: '
MOOD ==
    <<"\n","\n","U","s","e","r"," ","M","o","o","d","/","R","e","q","u","e","s",
      "t",":"," ">>

(***************************************************************************)
(* Python values and str operations, as the script uses them.              *)
(***************************************************************************)
None == <<>>

Some(v) == <<v>>

\* truth value of an object that is None or a str (lines 17, 108, 113, 172)
Truthy(o) == o # None /\ o[1] # <<>>

\* the characters str.strip() removes
WHITESPACE == {" ", "\n", "\t", "\r"}

RECURSIVE lstrip(_)
lstrip(s) == IF s # <<>> /\ Head(s) \in WHITESPACE THEN lstrip(Tail(s)) ELSE s

RECURSIVE rstrip(_)
rstrip(s) ==
    IF s # <<>> /\ s[Len(s)] \in WHITESPACE
    THEN rstrip(SubSeq(s, 1, Len(s) - 1))
    ELSE s

\* str.strip()
strip(s) == rstrip(lstrip(s))

\* str.find(sub) + 1: the position of the first occurrence of sub in s, 0 if none
find(s, sub) ==
    LET at == {i \in 1..(Len(s) - Len(sub) + 1) : SubSeq(s, i, i + Len(sub) - 1) = sub}
    IN  IF at = {} THEN 0 ELSE CHOOSE i \in at : \A j \in at : i <= j

\* sub in s
contains(s, sub) == find(s, sub) # 0

\* s.split(sep), sep not empty
RECURSIVE split(_, _)
split(s, sep) ==
    LET i == find(s, sep)
    IN  IF i = 0
        THEN <<s>>
        ELSE <<SubSeq(s, 1, i - 1)>> \o split(SubSeq(s, i + Len(sep), Len(s)), sep)

\* sep.join(parts)
RECURSIVE join(_, _)
join(sep, parts) ==
    IF parts = <<>> THEN <<>>
    ELSE IF Len(parts) = 1 THEN parts[1]
    ELSE parts[1] \o sep \o join(sep, Tail(parts))

DIGITS == <<"0", "1", "2", "3", "4", "5", "6", "7", "8", "9">>

\* the decimal form an f-string gives a non-negative int
RECURSIVE str(_)
str(n) == IF n < 10 THEN <<DIGITS[n + 1]>> ELSE str(n \div 10) \o <<DIGITS[(n % 10) + 1]>>

NL == <<"\n">>

(***************************************************************************)
(* Inputs of a handler run, drawn from small sets.                         *)
(***************************************************************************)
\* an API key
KEY == <<"s", "k">>

\* st.secrets["openai"]["api_key"]: None stands for the KeyError
Secrets == {None, Some(<<>>), Some(KEY)}

\* os.getenv("OPENAI_API_KEY")
Environ == {None, Some(<<>>), Some(KEY)}

\* what the two lookups of a run give
KeySources == [secrets : Secrets, env : Environ]

\* the two cases the runs of Spec, FilterSpec and SplitSpec meet
CoreKeySources ==
    {[secrets |-> None, env |-> None], [secrets |-> Some(KEY), env |-> None]}

\* a part of grape_options and of region_options
grape_options == {ANY, MERLOT}

region_options == {ANY, NAPA}

\* values of the price slider: 10 <= min <= max <= 500 in steps of 5
price_options == {<<20, 80>>, <<10, 500>>}

\* the sidebar selections a run can read
Sidebars ==
    [selected_grape : grape_options, selected_region : region_options,
     price : price_options]

\* the selection of an untouched sidebar (the first options, value=(20, 80)),
\* which the runs of Spec and SplitSpec read
CoreSidebars ==
    {[selected_grape |-> ANY, selected_region |-> ANY, price |-> <<20, 80>>]}

\* 'happy'
HAPPY == <<"h", "a", "p", "p", "y">>

\* what st.chat_input returns: None when nothing was submitted
ChatInputs == {None, Some(<<>>), Some(<<" ">>), Some(HAPPY)}

\* which preset button reports a click in this run, 0 for none
Clicks == 0..3

\* the user actions explored: a submission, a click, or a click while a
\* submission is pending
Interactions ==
    {ia \in [click : Clicks, chat : ChatInputs] :
        ia.click = 0 \/ ia.chat = None \/ (ia.click = 1 /\ ia.chat = Some(HAPPY))}

\* a completion text that ends in a suggestion line
REPLY_SUGGESTION == <<"O", "k", ".", "\n">> \o MARKER \o <<" ", "F", "o", "o">>

\* how the call of lines 135-141 ends: with a completion text or with an exception
Ok(content) == [kind |-> "ok", content |-> content]

APIError == [kind |-> "APIError", content |-> <<>>]

OtherException == [kind |-> "Exception", content |-> <<>>]

\* a completion text without a suggestion line, a blank at its end
REPLY_PLAIN == <<"O", "k", ".", " ">>

Outcomes == {Ok(REPLY_SUGGESTION), Ok(REPLY_PLAIN), APIError, OtherException}

\* the pieces the completion texts of SplitSpec are made of
Pieces == {MARKER, <<"\n">>, <<" ">>, <<"a">>}

RECURSIVE TextsOf(_)
TextsOf(n) ==
    IF n = 0 THEN {<<>>}
    ELSE LET shorter == TextsOf(n - 1)
         IN  shorter \cup {t \o p : t \in shorter, p \in Pieces}

\* every text of at most MaxPieces pieces
Texts == TextsOf(MaxPieces)

(***************************************************************************)
(* State.                                                                  *)
(***************************************************************************)
VARIABLES
    api_key,            \* openai.api_key
    session_state,      \* st.session_state: a function of the keys present
    heap,               \* the dicts allocated so far; a list holds indices
    stopped,            \* the last run ended in st.stop()
    sidebar,            \* the filter selection read by the last run
    history,            \* the messages the last run rendered as chat history
    user_input,         \* user_input of the last run
    messages_for_api,   \* the messages the last run passed to the client
    response,           \* the completion text the last run received
    image_search_term,  \* image_search_term of the last run
    displayed,          \* what the last run left on the page for the turn
    key_sources,        \* history: what the key lookups of the last run gave
    interaction,        \* history: what the buttons and st.chat_input gave
                        \* the last run
    calls,              \* number of completion-client calls so far
    turns               \* history: per turn, the text submitted, the sidebar
                        \* read, how the call ended and the reply appended

vars ==
    <<api_key, session_state, heap, stopped, sidebar, history, user_input,
      messages_for_api, response, image_search_term, displayed, key_sources,
      interaction, calls, turns>>

\* st.session_state.messages as a list of dict values
Log(ss, hp) ==
    IF "messages" \in DOMAIN ss
    THEN [i \in 1..Len(ss["messages"]) |-> hp[ss["messages"][i]]]
    ELSE <<>>

messages == Log(session_state, heap)

NoDisplay == [reply |-> None, suggestion |-> None, error |-> "none", warning |-> FALSE]

\* no button reported a click and st.chat_input gave nothing, or neither was reached
NoInteraction == [click |-> 0, chat |-> None]

Init ==
    /\ api_key = None
    /\ session_state = [k \in {} |-> <<>>]
    /\ heap = <<>>
    /\ stopped = FALSE
    /\ sidebar = None
    /\ history = <<>>
    /\ user_input = None
    /\ messages_for_api = <<>>
    /\ response = None
    /\ image_search_term = None
    /\ displayed = NoDisplay
    /\ key_sources = [secrets |-> None, env |-> None]
    /\ interaction = NoInteraction
    /\ calls = 0
    /\ turns = <<>>

(***************************************************************************)
(* The stages of the script, top to bottom.                                *)
(***************************************************************************)
\* LoadKey without the fallback of lines 16-18
LoadKeySecretsOnly(secrets, env) == secrets

\* lines 9-26: the key the run finds, None when it finds none
LoadKey(secrets, env) ==
    IF secrets # None THEN secrets
    ELSE IF Truthy(env) THEN env
    ELSE None

\* line 67
price_range_str(min_price, max_price) ==
    <<"$">> \o str(min_price) \o PRICE_SEP \o <<"$">> \o str(max_price)

\* filter_context with the region printed as selected, 'Any' included
filter_context_region_as_selected(sb) ==
    FC_GRAPE
        \o (IF sb.selected_grape # ANY THEN sb.selected_grape ELSE NOT_SPECIFIED)
        \o FC_REGION
        \o sb.selected_region
        \o FC_PRICE
        \o price_range_str(sb.price[1], sb.price[2])
        \o FC_END

\* line 120
filter_context(sb) ==
    FC_GRAPE
        \o (IF sb.selected_grape # ANY THEN sb.selected_grape ELSE NOT_SPECIFIED)
        \o FC_REGION
        \o (IF sb.selected_region # ANY THEN sb.selected_region ELSE NOT_SPECIFIED)
        \o FC_PRICE
        \o price_range_str(sb.price[1], sb.price[2])
        \o FC_END

\* ChatInitialization without the test of line 70: every run seeds
ChatInitializationEveryRun(st) ==
    [ss |-> ("messages" :>
                ((IF "messages" \in DOMAIN st.ss THEN st.ss["messages"] ELSE <<>>)
                    \o <<Len(st.heap) + 1, Len(st.heap) + 2>>)) @@ st.ss,
     heap |-> st.heap \o <<[role |-> "system", content |-> SYSTEM_PRE_PROMPT],
                           [role |-> "assistant", content |-> WELCOME]>>]

\* lines 70-77: seed the log unless the session has one
ChatInitialization(st) ==
    IF "messages" \in DOMAIN st.ss
    THEN st
    ELSE [ss |-> ("messages" :> <<Len(st.heap) + 1, Len(st.heap) + 2>>) @@ st.ss,
          heap |-> st.heap \o <<[role |-> "system", content |-> SYSTEM_PRE_PROMPT],
                                [role |-> "assistant", content |-> WELCOME]>>]

\* DisplayChatHistory without the role test of line 82
DisplayChatHistoryAllRoles(st) == Log(st.ss, st.heap)

\* lines 80-84: the messages rendered, in order
DisplayChatHistory(st) ==
    SelectSeq(Log(st.ss, st.heap), LAMBDA message : message.role # "system")

\* lines 96-104: a clicked button stores its prompt
SuggestedPrompts(ss, click) ==
    IF click \in 1..3
    THEN ("selected_prompt" :> suggested_prompts[click]) @@ ss
    ELSE ss

\* line 108
HasSelectedPrompt(ss) ==
    "selected_prompt" \in DOMAIN ss /\ ss["selected_prompt"] # <<>>

\* lines 107-110: the input of the run
ChooseInput(ss, chat) ==
    IF HasSelectedPrompt(ss) THEN Some(ss["selected_prompt"]) ELSE chat

\* ClearSelectedPrompt without the del of line 110
ClearSelectedPromptKept(ss) == ss

\* line 110: del st.session_state.selected_prompt
ClearSelectedPrompt(ss) ==
    IF HasSelectedPrompt(ss)
    THEN [k \in DOMAIN ss \ {"selected_prompt"} |-> ss[k]]
    ELSE ss

\* AppendMessage that keeps only the four latest messages before appending
AppendMessageWindowed(st, role, content) ==
    LET refs == st.ss["messages"]
        kept == IF Len(refs) > 4 THEN SubSeq(refs, Len(refs) - 3, Len(refs)) ELSE refs
    IN  [ss |-> [st.ss EXCEPT !["messages"] = Append(kept, Len(st.heap) + 1)],
         heap |-> Append(st.heap, [role |-> role, content |-> content])]

\* AppendMessage without the append of line 189: only user messages are stored
AppendMessageUserOnly(st, role, content) ==
    IF role = "user"
    THEN [ss |-> [st.ss EXCEPT !["messages"] = Append(@, Len(st.heap) + 1)],
          heap |-> Append(st.heap, [role |-> role, content |-> content])]
    ELSE st

\* line 115: append a new dict to st.session_state.messages
AppendMessage(st, role, content) ==
    [ss |-> [st.ss EXCEPT !["messages"] = Append(@, Len(st.heap) + 1)],
     heap |-> Append(st.heap, [role |-> role, content |-> content])]

\* line 122: list.copy() makes a new list of the same dicts
ListCopy(refs) == refs

\* line 124: assignment to the "content" of the dict the list's last entry refers to
SetLastContent(hp, refs, content) ==
    [hp EXCEPT ![refs[Len(refs)]].content = content]

\* ExtractSuggestion without the strip() of the term at line 152
ExtractSuggestionRawTerm(content) ==
    LET stripped == strip(content)
        lines == split(stripped, NL)
    IN  IF lines # <<>> /\ contains(lines[Len(lines)], MARKER)
        THEN LET parts == split(lines[Len(lines)], MARKER)
             IN  IF Len(parts) >= 2
                 THEN [image_search_term |-> Some(parts[2]),
                       assistant_response |->
                           strip(join(NL, SubSeq(lines, 1, Len(lines) - 1)))]
                 ELSE [image_search_term |-> None, assistant_response |-> stripped]
        ELSE [image_search_term |-> None, assistant_response |-> stripped]

\* lines 143-156: strip the completion text and split off the suggestion line
ExtractSuggestion(content) ==
    LET stripped == strip(content)
        lines == split(stripped, NL)
    IN  IF lines # <<>> /\ contains(lines[Len(lines)], MARKER)
        THEN LET parts == split(lines[Len(lines)], MARKER)
             IN  IF Len(parts) >= 2
                 THEN [image_search_term |-> Some(strip(parts[2])),
                       assistant_response |->
                           strip(join(NL, SubSeq(lines, 1, Len(lines) - 1)))]
                 ELSE [image_search_term |-> None, assistant_response |-> stripped]
        ELSE [image_search_term |-> None, assistant_response |-> stripped]

\* Reply with the apology of the first except clause in both clauses
ReplySameApology(outcome) ==
    IF outcome.kind = "ok"
    THEN LET ex == ExtractSuggestion(outcome.content)
         IN  [assistant_response |-> ex.assistant_response,
              image_search_term |-> ex.image_search_term,
              suggestion |-> IF Truthy(ex.image_search_term)
                             THEN ex.image_search_term ELSE None,
              error |-> "none"]
    ELSE [assistant_response |-> APOLOGY_API, image_search_term |-> None,
          suggestion |-> None, error |-> outcome.kind]

\* Reply without line 153: the suggestion line stays in assistant_response
ReplyKeepsSuggestionLine(outcome) ==
    IF outcome.kind = "ok"
    THEN LET ex == ExtractSuggestion(outcome.content)
         IN  [assistant_response |-> strip(outcome.content),
              image_search_term |-> ex.image_search_term,
              suggestion |-> IF Truthy(ex.image_search_term)
                             THEN ex.image_search_term ELSE None,
              error |-> "none"]
    ELSE IF outcome.kind = "APIError"
    THEN [assistant_response |-> APOLOGY_API, image_search_term |-> None,
          suggestion |-> None, error |-> "APIError"]
    ELSE [assistant_response |-> APOLOGY_OTHER, image_search_term |-> None,
          suggestion |-> None, error |-> "Exception"]

\* lines 132-186: the reply of the turn for each way the call can end
Reply(outcome) ==
    IF outcome.kind = "ok"
    THEN LET ex == ExtractSuggestion(outcome.content)
         IN  [assistant_response |-> ex.assistant_response,
              image_search_term |-> ex.image_search_term,
              suggestion |-> IF Truthy(ex.image_search_term)
                             THEN ex.image_search_term ELSE None,
              error |-> "none"]
    ELSE IF outcome.kind = "APIError"
    THEN [assistant_response |-> APOLOGY_API, image_search_term |-> None,
          suggestion |-> None, error |-> "APIError"]
    ELSE [assistant_response |-> APOLOGY_OTHER, image_search_term |-> None,
          suggestion |-> None, error |-> "Exception"]

\* Attempts with a second call after a failed one
AttemptsWithRetry(outcome) == IF outcome.kind = "ok" THEN 1 ELSE 2

\* lines 132-186: the calls of openai.chat.completions.create one turn makes;
\* neither except clause calls again
Attempts(outcome) == 1

(***************************************************************************)
(* One handler run: the script from line 1 to its end or to st.stop().     *)
(***************************************************************************)
\* lines 9-26, no key: warn and stop before anything else is read
RunStopped(secrets, env) ==
    /\ LoadKey(secrets, env) = None
    /\ stopped' = TRUE
    /\ sidebar' = None
    /\ history' = <<>>
    /\ user_input' = None
    /\ messages_for_api' = <<>>
    /\ response' = None
    /\ image_search_term' = None
    /\ displayed' = [NoDisplay EXCEPT !.warning = TRUE]
    /\ key_sources' = [secrets |-> secrets, env |-> env]
    /\ interaction' = NoInteraction
    /\ UNCHANGED <<api_key, session_state, heap, calls, turns>>

\* the run up to line 110, shared by the runs that have a key
Prologue(click, chat) ==
    LET seeded == ChatInitialization([ss |-> session_state, heap |-> heap])
        clicked == SuggestedPrompts(seeded.ss, click)
    IN  [st |-> [ss |-> ClearSelectedPrompt(clicked), heap |-> seeded.heap],
         history |-> DisplayChatHistory(seeded),
         user_input |-> ChooseInput(clicked, chat)]

\* a run whose input is falsy at line 113
RunIdle(secrets, env, sb, click, chat) ==
    LET pro == Prologue(click, chat)
    IN  /\ LoadKey(secrets, env) # None
        /\ ~Truthy(pro.user_input)
        /\ api_key' = LoadKey(secrets, env)
        /\ key_sources' = [secrets |-> secrets, env |-> env]
        /\ interaction' = [click |-> click, chat |-> chat]
        /\ session_state' = pro.st.ss
        /\ heap' = pro.st.heap
        /\ stopped' = FALSE
        /\ sidebar' = Some(sb)
        /\ history' = pro.history
        /\ user_input' = pro.user_input
        /\ messages_for_api' = <<>>
        /\ response' = None
        /\ image_search_term' = None
        /\ displayed' = NoDisplay
        /\ UNCHANGED <<calls, turns>>

\* a run whose input is truthy at line 113: lines 115-189
RunTurn(secrets, env, sb, click, chat, outcome) ==
    LET pro == Prologue(click, chat)
        text == pro.user_input[1]
        asked == AppendMessage(pro.st, "user", text)
        api_refs == ListCopy(asked.ss["messages"])
        composed == SetLastContent(asked.heap, api_refs,
                                   filter_context(sb) \o MOOD \o text)
        reply == Reply(outcome)
        answered == AppendMessage([ss |-> asked.ss, heap |-> composed],
                                  "assistant", reply.assistant_response)
    IN  /\ Len(turns) < MaxTurns
        /\ LoadKey(secrets, env) # None
        /\ Truthy(pro.user_input)
        /\ api_key' = LoadKey(secrets, env)
        /\ key_sources' = [secrets |-> secrets, env |-> env]
        /\ interaction' = [click |-> click, chat |-> chat]
        /\ session_state' = answered.ss
        /\ heap' = answered.heap
        /\ stopped' = FALSE
        /\ sidebar' = Some(sb)
        /\ history' = pro.history
        /\ user_input' = pro.user_input
        /\ messages_for_api' = [i \in 1..Len(api_refs) |-> composed[api_refs[i]]]
        /\ response' = IF outcome.kind = "ok" THEN Some(outcome.content) ELSE None
        /\ image_search_term' = reply.image_search_term
        /\ displayed' = [reply |-> Some(reply.assistant_response),
                         suggestion |-> reply.suggestion,
                         error |-> reply.error, warning |-> FALSE]
        /\ calls' = calls + Attempts(outcome)
        /\ turns' = Append(turns, [text |-> text, sidebar |-> sb,
                                   outcome |-> outcome.kind,
                                   reply |-> reply.assistant_response])

Next ==
    \/ \E src \in CoreKeySources : RunStopped(src.secrets, src.env)
    \/ \E src \in CoreKeySources, sb \in CoreSidebars, ia \in Interactions :
          RunIdle(src.secrets, src.env, sb, ia.click, ia.chat)
    \/ \E src \in CoreKeySources, sb \in CoreSidebars, ia \in Interactions,
          outcome \in Outcomes :
          RunTurn(src.secrets, src.env, sb, ia.click, ia.chat, outcome)

\* sessions of any number of runs, up to MaxTurns turns
Spec == Init /\ [][Next]_vars

FilterNext ==
    \/ \E src \in CoreKeySources : RunStopped(src.secrets, src.env)
    \/ \E src \in CoreKeySources, sb \in Sidebars :
          RunIdle(src.secrets, src.env, sb, 0, None)
    \/ \E src \in CoreKeySources, sb \in Sidebars :
          RunTurn(src.secrets, src.env, sb, 0, Some(HAPPY), Ok(REPLY_SUGGESTION))

\* the same sessions with every sidebar selection, one input and one reply
FilterSpec == Init /\ [][FilterNext]_vars

SplitNext ==
    \/ \E src \in CoreKeySources, sb \in CoreSidebars :
          RunIdle(src.secrets, src.env, sb, 0, None)
    \/ /\ turns = <<>>
       /\ \E src \in CoreKeySources, sb \in CoreSidebars, content \in Texts :
             RunTurn(src.secrets, src.env, sb, 0, Some(HAPPY), Ok(content))

\* one turn, the completion text drawn from Texts
SplitSpec == Init /\ [][SplitNext]_vars

KeyNext ==
    \/ \E src \in KeySources : RunStopped(src.secrets, src.env)
    \/ \E src \in KeySources, sb \in CoreSidebars :
          RunIdle(src.secrets, src.env, sb, 0, None)
    \/ \E src \in KeySources, sb \in CoreSidebars, outcome \in Outcomes :
          RunTurn(src.secrets, src.env, sb, 0, Some(HAPPY), outcome)

\* the same sessions with every outcome of the two key lookups and one input
KeySpec == Init /\ [][KeyNext]_vars

(***************************************************************************)
(* The conversation as it was given, from the history of the turns.        *)
(***************************************************************************)
SeededLog ==
    <<[role |-> "system", content |-> SYSTEM_PRE_PROMPT],
      [role |-> "assistant", content |-> WELCOME]>>

\* the log as the messages were originally given, for the first n turns
RECURSIVE OriginalLog(_)
OriginalLog(n) ==
    IF n = 0 THEN SeededLog
    ELSE OriginalLog(n - 1)
            \o <<[role |-> "user", content |-> turns[n].text],
                 [role |-> "assistant", content |-> turns[n].reply]>>

UserMessages == SelectSeq(messages, LAMBDA m : m.role = "user")

AssistantMessages == SelectSeq(messages, LAMBDA m : m.role = "assistant")

\* the assistant message stored for turn i: the welcome message is the first
StoredReply(i) == AssistantMessages[i + 1]

IsPrefix(s, t) == Len(s) <= Len(t) /\ SubSeq(t, 1, Len(s)) = s

(***************************************************************************)
(* C1  Composer purity: after every turn, and after any later run, the     *)
(* user message stored for a turn is exactly the text the user submitted   *)
(* in that turn; the filter context is only in the list given to the       *)
(* completion client.                                                      *)
(***************************************************************************)
ComposerPurity ==
    /\ Len(UserMessages) = Len(turns)
    /\ \A i \in 1..Len(turns) : UserMessages[i].content = turns[i].text

(***************************************************************************)
(* C2  In every outbound request only the final message is rewritten:      *)
(* every other message has the role and content it was originally given.   *)
(***************************************************************************)
OnlyFinalRewritten ==
    messages_for_api # <<>> =>
        /\ Len(messages_for_api) = 2 * Len(turns) + 1
        /\ SubSeq(messages_for_api, 1, Len(messages_for_api) - 1)
                = OriginalLog(Len(turns) - 1)

\* a turn was processed and left the filter context in the stored log
ComposerPurityCase ==
    /\ Len(turns) = 1
    /\ user_input = Some(HAPPY)
    /\ messages_for_api # <<>>

(***************************************************************************)
(* C3  Error substitution.  Every failed call leaves an apology as the     *)
(* turn's stored assistant message, no suggestion is extracted or shown,   *)
(* and the run ends normally with the reply appended, so the session goes  *)
(* on.                                                                     *)
(***************************************************************************)
Failed(i) == turns[i].outcome # "ok"

\* the run that just ended had a failing call
FailedRun == messages_for_api # <<>> /\ Failed(Len(turns))

NoSuggestionAndNormalEnd ==
    FailedRun =>
        /\ image_search_term = None
        /\ displayed.suggestion = None
        /\ ~stopped
        /\ Len(messages) = Len(messages_for_api) + 1
        /\ messages[Len(messages)] =
                [role |-> "assistant", content |-> StoredReply(Len(turns)).content]
        /\ displayed.reply = Some(StoredReply(Len(turns)).content)

\* C3 as stated: one fixed apology text, whatever the failure
ErrorSubstitutionOneText ==
    /\ \E apology \in {APOLOGY_API, APOLOGY_OTHER} :
          \A i \in 1..Len(turns) : Failed(i) => StoredReply(i).content = apology
    /\ NoSuggestionAndNormalEnd

\* C3 as amended: the apology is the one of the except clause the failure
\* reaches, APOLOGY_API for openai.APIError and APOLOGY_OTHER for any other
\* exception
ErrorSubstitution ==
    /\ \A i \in 1..Len(turns) :
          /\ turns[i].outcome = "APIError" => StoredReply(i).content = APOLOGY_API
          /\ turns[i].outcome = "Exception" => StoredReply(i).content = APOLOGY_OTHER
    /\ NoSuggestionAndNormalEnd

\* a failed turn was followed by a turn that was processed
ErrorThenNextTurn ==
    /\ Len(turns) = 2
    /\ turns[1].outcome = "Exception"
    /\ turns[2].outcome = "APIError"
    /\ Len(messages) = 6

(***************************************************************************)
(* C4  Empty-input guard: a run whose input is absent, empty or only       *)
(* whitespace, no preset button clicked, appends no message and makes no   *)
(* call; apart from the seeding of a fresh session the log is unchanged.   *)
(***************************************************************************)
Blank(o) == o = None \/ \A i \in 1..Len(o[1]) : o[1][i] \in WHITESPACE

EmptyInputGuard ==
    [][Blank(user_input') =>
          /\ calls' = calls
          /\ \/ messages' = messages
             \/ messages = <<>> /\ messages' = SeededLog]_vars

(***************************************************************************)
(* C6  Idempotent initialization: once a run has passed the key check the  *)
(* log has exactly one system message, at position 0, followed by the      *)
(* welcome message; a run that finds a log keeps its first two messages    *)
(* and never shortens it.                                                  *)
(***************************************************************************)
IdempotentInitialization ==
    /\ [](api_key # None =>
            /\ "messages" \in DOMAIN session_state
            /\ Len(messages) >= 2
            /\ {i \in 1..Len(messages) : messages[i].role = "system"} = {1}
            /\ messages[1] = SeededLog[1]
            /\ messages[2] = SeededLog[2])
    /\ [][("messages" \in DOMAIN session_state /\ ~stopped') =>
            /\ Len(messages') >= Len(messages)
            /\ SubSeq(session_state'["messages"], 1, 2)
                    = SubSeq(session_state["messages"], 1, 2)
            /\ SubSeq(messages', 1, 2) = SubSeq(messages, 1, 2)]_vars

\* runs found an existing log: a stopped run and two turns after the seeding
InitializedOnce ==
    /\ Len(turns) = 2
    /\ Len(messages) = 6
    /\ user_input = None
    /\ ~stopped

(***************************************************************************)
(* C7  Append-only log: the log at the end of a run is a prefix of the log *)
(* at the end of the next run.                                             *)
(***************************************************************************)
AppendOnly == [][IsPrefix(messages, messages')]_vars

\* the log grew in two runs
GrownTwice ==
    /\ Len(turns) = 2
    /\ Len(messages) = 6
    /\ turns[1].text # turns[2].text
    /\ messages_for_api # <<>>

(***************************************************************************)
(* C8  Single attempt: a run with a non-empty input makes exactly one      *)
(* completion-client call, failed or not; a run without input makes none,  *)
(* so a failed call is never repeated without a new submission.            *)
(***************************************************************************)
SingleAttempt ==
    [][calls' = calls + (IF Truthy(user_input') THEN 1 ELSE 0)]_vars

\* a call failed and a later run without input left it at that
FailedAndNotRetried ==
    /\ Len(turns) = 1
    /\ Failed(1)
    /\ calls = 1
    /\ user_input = None
    /\ ~stopped

(***************************************************************************)
(* The splitter's result, described by positions in the text.              *)
(***************************************************************************)
Least(S) == CHOOSE i \in S : \A j \in S : i <= j

Greatest(S) == CHOOSE i \in S : \A j \in S : i >= j

\* t without its leading and trailing whitespace
Trimmed(t) ==
    LET inked == {i \in 1..Len(t) : t[i] \notin WHITESPACE}
    IN  IF inked = {} THEN <<>> ELSE SubSeq(t, Least(inked), Greatest(inked))

\* position of the last newline of t, 0 if it has none
LastNewline(t) ==
    LET at == {i \in 1..Len(t) : t[i] = "\n"}
    IN  IF at = {} THEN 0 ELSE Greatest(at)

LastLine(t) == SubSeq(t, LastNewline(t) + 1, Len(t))

\* the lines before the last one, joined by newlines
PrecedingLines(t) == SubSeq(t, 1, LastNewline(t) - 1)

\* the positions at which the marker starts in l
MarkerAt(l) ==
    {i \in 1..(Len(l) - Len(MARKER) + 1) : \A k \in 1..Len(MARKER) : l[i + k - 1] = MARKER[k]}

\* what follows the first marker of l
AfterMarker(l) == SubSeq(l, Least(MarkerAt(l)) + Len(MARKER), Len(l))

\* what lies between the first marker of l and the next marker, or the end of l
UpToNextMarker(l) ==
    LET start == Least(MarkerAt(l)) + Len(MARKER)
        later == {i \in MarkerAt(l) : i >= start}
    IN  SubSeq(l, start, IF later = {} THEN Len(l) ELSE Least(later) - 1)

\* the assistant message the last run stored
LastStored == messages[Len(messages)].content

(***************************************************************************)
(* C5  Malformed marker line: when the reply's last line ends in the       *)
(* marker with nothing after it, the suggestion is none and the whole      *)
(* reply text, that line included, is displayed and stored.                *)
(***************************************************************************)
EndsWithMarker(t) == Len(t) >= Len(MARKER) /\ (Len(t) - Len(MARKER) + 1) \in MarkerAt(t)

MalformedMarkerFallback ==
    (response # None /\ EndsWithMarker(response[1])) =>
        /\ image_search_term = None
        /\ displayed.suggestion = None
        /\ displayed.reply = response
        /\ LastStored = response[1]

(***************************************************************************)
(* C9  Splitter result.  As stated: if the last line of the raw text       *)
(* contains the marker, the query is the trimmed text after the marker and *)
(* the display text the trimmed preceding lines; otherwise the display     *)
(* text is the raw text and there is no query.                             *)
(***************************************************************************)
SplitterOnRawText ==
    response # None =>
        LET raw == response[1]
        IN  IF MarkerAt(LastLine(raw)) # {}
            THEN /\ image_search_term = Some(Trimmed(AfterMarker(LastLine(raw))))
                 /\ LastStored = Trimmed(PrecedingLines(raw))
            ELSE /\ image_search_term = None
                 /\ LastStored = raw

\* C9 as amended: the same of the raw text trimmed of surrounding whitespace,
\* the query being the trimmed text between the first marker of the last line
\* and the next marker on that line (or the end of the line)
SplitterOnTrimmedText ==
    response # None =>
        LET text == Trimmed(response[1])
        IN  IF MarkerAt(LastLine(text)) # {}
            THEN /\ image_search_term = Some(Trimmed(UpToNextMarker(LastLine(text))))
                 /\ LastStored = Trimmed(PrecedingLines(text))
            ELSE /\ image_search_term = None
                 /\ LastStored = text

\* a reply of two lines, the marker on the last one, was split
SuggestionSplitOff ==
    /\ response = Some(<<"a", "\n">> \o MARKER \o <<"a">>)
    /\ image_search_term = Some(<<"a">>)
    /\ LastStored = <<"a">>

(***************************************************************************)
(* C10  Outbound final message: role user; content the serialization of    *)
(* the sidebar selection read in the same run, a blank line, and           *)
(* 'User Mood/Request: ' with the text the user submitted.                 *)
(***************************************************************************)
\* 'User Preferences: Grape=[Not Specified], Region=[Napa Valley (USA)], Price Range=[$20 - $80].'
NAPA_SCENARIO ==
    <<"U","s","e","r"," ","P","r","e","f","e","r","e","n","c","e","s",":"," ",
      "G","r","a","p","e","=","[","N","o","t"," ","S","p","e","c","i","f","i",
      "e","d","]",","," ","R","e","g","i","o","n","=","[","N","a","p","a"," ",
      "V","a","l","l","e","y"," ","(","U","S","A",")","]",","," ","P","r","i",
      "c","e"," ","R","a","n","g","e","=","[","$","2","0"," ","-"," ","$","8",
      "0","]",".">>

\* 'User Mood/Request: '
MOOD_REQUEST ==
    <<"U","s","e","r"," ","M","o","o","d","/","R","e","q","u","e","s","t",":",
      " ">>

\* the number a sequence of digits denotes
RECURSIVE DecimalValue(_)
DecimalValue(ds) ==
    IF ds = <<>> THEN 0 ELSE 10 * DecimalValue(SubSeq(ds, 1, Len(ds) - 1)) + ds[Len(ds)]

\* the decimal numeral of n, 0 <= n <= 999
Numeral(n) ==
    LET ds == CHOOSE d \in UNION {[1..k -> 0..9] : k \in 1..3} :
                  /\ DecimalValue(d) = n
                  /\ (Len(d) = 1 \/ d[1] # 0)
    IN  [i \in 1..Len(ds) |-> DIGITS[ds[i] + 1]]

ShownAs(option) == IF option = ANY THEN NOT_SPECIFIED ELSE option

Serialized(sb) ==
    FC_GRAPE \o ShownAs(sb.selected_grape) \o FC_REGION \o ShownAs(sb.selected_region)
        \o FC_PRICE \o <<"$">> \o Numeral(sb.price[1]) \o <<" ", "-", " ", "$">>
        \o Numeral(sb.price[2]) \o FC_END

OutboundFinalMessage ==
    messages_for_api # <<>> =>
        LET final == messages_for_api[Len(messages_for_api)]
            sb == sidebar[1]
        IN  /\ final.role = "user"
            /\ final.content =
                    Serialized(sb) \o <<"\n", "\n">> \o MOOD_REQUEST \o user_input[1]
            /\ (sb.selected_grape = ANY /\ sb.selected_region = NAPA
                    /\ sb.price = <<20, 80>>) =>
                    SubSeq(final.content, 1, Len(NAPA_SCENARIO)) = NAPA_SCENARIO

\* the second turn of a session was sent under another selection than the first
SentUnderNewSelection ==
    /\ Len(turns) = 2
    /\ messages_for_api # <<>>
    /\ turns[1].sidebar.selected_grape = MERLOT
    /\ turns[1].sidebar.price = <<10, 500>>
    /\ sidebar = Some([selected_grape |-> ANY, selected_region |-> NAPA,
                       price |-> <<20, 80>>])

(***************************************************************************)
(* C11  History excludes the system role: what a run renders as chat       *)
(* history is the stored log as the run finds it (seeded, if the session   *)
(* is new) without its system-role entries, in log order; the system       *)
(* instruction is never rendered.                                          *)
(***************************************************************************)
\* the entries of log that are not of the system role, in order
RECURSIVE WithoutSystem(_)
WithoutSystem(log) ==
    IF log = <<>> THEN <<>>
    ELSE IF log[Len(log)].role = "system"
         THEN WithoutSystem(SubSeq(log, 1, Len(log) - 1))
         ELSE Append(WithoutSystem(SubSeq(log, 1, Len(log) - 1)), log[Len(log)])

HistoryExcludesSystem ==
    /\ [](\A i \in 1..Len(history) :
            history[i].role # "system" /\ history[i].content # SYSTEM_PRE_PROMPT)
    /\ [][~stopped' =>
            history' = WithoutSystem(IF "messages" \in DOMAIN session_state
                                     THEN messages ELSE SeededLog)]_vars

\* a run rendered the welcome message and a whole turn
TurnRendered ==
    /\ Len(history) = 3
    /\ history[1] = [role |-> "assistant", content |-> WELCOME]
    /\ history[2].role = "user"
    /\ history[3].role = "assistant"
    /\ Len(messages) = 4

(***************************************************************************)
(* C13  Turn shape: once seeded, the log is [system, assistant,            *)
(* (user, assistant)*]: it ends with an assistant message and has          *)
(* 2 + 2 * (number of turns processed) messages, whether the calls         *)
(* succeeded or failed.                                                    *)
(***************************************************************************)
TurnShape ==
    "messages" \in DOMAIN session_state =>
        /\ Len(messages) = 2 + 2 * Len(turns)
        /\ calls = Len(turns)
        /\ messages[1].role = "system"
        /\ \A i \in 2..Len(messages) :
              messages[i].role = (IF i % 2 = 0 THEN "assistant" ELSE "user")
        /\ messages[Len(messages)].role = "assistant"

\* a failed turn and a successful one, then a run without input
TwoTurnsOneFailed ==
    /\ Len(turns) = 2
    /\ turns[1].outcome = "APIError"
    /\ turns[2].outcome = "ok"
    /\ Len(messages) = 6
    /\ messages_for_api = <<>>
    /\ ~stopped

(***************************************************************************)
(* C14  Nothing partial is persisted: the one assistant message a turn     *)
(* appends is the text displayed as its reply: on success the splitter's   *)
(* display text, without the extracted suggestion line, on failure the     *)
(* apology; the raw text with its marker line is never stored when a       *)
(* suggestion was extracted.                                               *)
(***************************************************************************)
NothingPartialPersisted ==
    messages_for_api # <<>> =>
        /\ Len(messages) = Len(messages_for_api) + 1
        /\ messages[Len(messages)].role = "assistant"
        /\ displayed.reply = Some(LastStored)
        /\ response = None => LastStored \in {APOLOGY_API, APOLOGY_OTHER}
        /\ response # None =>
              LET text == Trimmed(response[1])
              IN  IF image_search_term # None
                  THEN /\ LastStored = Trimmed(PrecedingLines(text))
                       /\ LastStored # response[1]
                       /\ Len(LastStored) + Len(MARKER) <= Len(text)
                  ELSE LastStored = text

\* a reply with a suggestion line was displayed and stored without it
StoredWithoutSuggestionLine ==
    /\ response = Some(REPLY_SUGGESTION)
    /\ displayed.suggestion = Some(<<"F", "o", "o">>)
    /\ displayed.reply = Some(<<"O", "k", ".">>)
    /\ LastStored = <<"O", "k", ".">>

(***************************************************************************)
(* C12  Startup credential check: a run that gets no key from the secrets  *)
(* store and none from the environment variable shows the warning and      *)
(* halts before the log is initialized, before any input is read and       *)
(* before any call; a run that gets a key from either source proceeds.     *)
(* The secrets store gives a key when the lookup of line 10 succeeds, the  *)
(* environment when the variable holds a non-empty string (line 17).       *)
(***************************************************************************)
NoKeyAvailable(src) == src.secrets = None /\ (src.env = None \/ src.env = Some(<<>>))

PresetConsumedOnce ==
    /\ []("selected_prompt" \notin DOMAIN session_state)
    /\ [][(~stopped' /\ interaction'.click \in 1..3) =>
            /\ user_input' = Some(suggested_prompts[interaction'.click])
            /\ Len(turns') = Len(turns) + 1
            /\ turns'[Len(turns')].text = suggested_prompts[interaction'.click]
            /\ calls' = calls + 1]_vars
    /\ [][(~stopped' /\ interaction'.click = 0) =>
            user_input' = interaction'.chat]_vars
    /\ [][(~stopped' /\ interaction' = NoInteraction) =>
            /\ user_input' = None
            /\ turns' = turns
            /\ calls' = calls
            /\ messages_for_api' = <<>>
            /\ messages' = (IF "messages" \in DOMAIN session_state
                            THEN messages ELSE SeededLog)]_vars

\* a preset was processed in the run of its click, a later run without input
\* left it at that
PresetThenNothing ==
    /\ Len(turns) = 1
    /\ turns[1].text = PROMPT_1
    /\ calls = 1
    /\ Len(messages) = 4
    /\ interaction = NoInteraction
    /\ user_input = None
    /\ ~stopped

====
